---- MODULE Spec2Model ----
(***************************************************************************)
(* A model of src/main.py, the Companies House director search.            *)
(*                                                                         *)
(* Python values are encoded as follows.                                   *)
(*   - An optional value (a dict key that may be missing, or None) is a    *)
(*     sequence of length at most one: None is << >>, the value v is <<v>>.*)
(*   - A string the program looks into (a name, a company status) is a     *)
(*     sequence of one-character strings; a string the program only        *)
(*     compares or stores (an officer id, a company number) is a TLA+      *)
(*     string.                                                             *)
(*   - A link is the sequence of its path segments.                        *)
(***************************************************************************)
EXTENDS Integers, Sequences, FiniteSets, TLC

(***************************************************************************)
(* Optional values.                                                        *)
(***************************************************************************)
None == << >>

Some(v) == <<v>>

\* Python truthiness of an optional string: not None and not ''.
TruthyStr(o) == o /= None /\ o[1] /= ""

\* dict.get(key, default) on an optional field.
GetOr(o, default) == IF o = None THEN default ELSE o[1]

(***************************************************************************)
(* Characters.  Alphabet lists the characters in code-point order, so the  *)
(* position of a character orders it as Python orders it.                  *)
(***************************************************************************)
UpperLetters ==
    << "A", "B", "C", "D", "E", "F", "G", "H", "I", "J", "K", "L", "M",
       "N", "O", "P", "Q", "R", "S", "T", "U", "V", "W", "X", "Y", "Z" >>

LowerLetters ==
    << "a", "b", "c", "d", "e", "f", "g", "h", "i", "j", "k", "l", "m",
       "n", "o", "p", "q", "r", "s", "t", "u", "v", "w", "x", "y", "z" >>

Alphabet == << " ", ",", "-" >> \o UpperLetters \o LowerLetters

Code(c) == CHOOSE i \in 1..Len(Alphabet) : Alphabet[i] = c

UpperChar(c) ==
    IF \E i \in 1..Len(LowerLetters) : LowerLetters[i] = c
    THEN UpperLetters[CHOOSE i \in 1..Len(LowerLetters) : LowerLetters[i] = c]
    ELSE c

LowerChar(c) ==
    IF \E i \in 1..Len(UpperLetters) : UpperLetters[i] = c
    THEN LowerLetters[CHOOSE i \in 1..Len(UpperLetters) : UpperLetters[i] = c]
    ELSE c

\* str.upper()
Upper(s) == [i \in 1..Len(s) |-> UpperChar(s[i])]

\* str.lower()
Lower(s) == [i \in 1..Len(s) |-> LowerChar(s[i])]

(***************************************************************************)
(* String operations of the Python library, as the program uses them.      *)
(***************************************************************************)
\* str.replace(a, b) for single characters.
ReplaceChar(s, a, b) == [i \in 1..Len(s) |-> IF s[i] = a THEN b ELSE s[i]]

\* str.replace(pat, ''): every non-overlapping occurrence, left to right.
RECURSIVE RemoveAll(_, _)
RemoveAll(s, pat) ==
    IF Len(s) < Len(pat) THEN s
    ELSE IF SubSeq(s, 1, Len(pat)) = pat
         THEN RemoveAll(SubSeq(s, Len(pat) + 1, Len(s)), pat)
         ELSE <<s[1]>> \o RemoveAll(Tail(s), pat)

\* str.split(): split on runs of whitespace, no empty tokens.
RECURSIVE SplitWsFrom(_, _, _, _)
SplitWsFrom(s, i, cur, acc) ==
    IF i > Len(s)
    THEN IF cur = << >> THEN acc ELSE Append(acc, cur)
    ELSE IF s[i] = " "
         THEN SplitWsFrom(s, i + 1, << >>,
                          IF cur = << >> THEN acc ELSE Append(acc, cur))
         ELSE SplitWsFrom(s, i + 1, Append(cur, s[i]), acc)

SplitWs(s) == SplitWsFrom(s, 1, << >>, << >>)

\* str.split(ch): split on every occurrence, empty parts kept.
RECURSIVE SplitOnFrom(_, _, _, _, _)
SplitOnFrom(s, ch, i, cur, acc) ==
    IF i > Len(s) THEN Append(acc, cur)
    ELSE IF s[i] = ch
         THEN SplitOnFrom(s, ch, i + 1, << >>, Append(acc, cur))
         ELSE SplitOnFrom(s, ch, i + 1, Append(cur, s[i]), acc)

SplitOn(s, ch) == SplitOnFrom(s, ch, 1, << >>, << >>)

\* str.strip()
RECURSIVE StripLeft(_)
StripLeft(s) ==
    IF s /= << >> /\ s[1] = " " THEN StripLeft(Tail(s)) ELSE s

RECURSIVE StripRight(_)
StripRight(s) ==
    IF s /= << >> /\ s[Len(s)] = " "
    THEN StripRight(SubSeq(s, 1, Len(s) - 1))
    ELSE s

Strip(s) == StripRight(StripLeft(s))

\* sep.join(tokens)
RECURSIVE Join(_, _)
Join(tokens, sep) ==
    IF tokens = << >> THEN << >>
    ELSE IF Len(tokens) = 1 THEN tokens[1]
         ELSE tokens[1] \o sep \o Join(Tail(tokens), sep)

\* a < b for strings: code-point order, a proper prefix first.
RECURSIVE LexLess(_, _)
LexLess(a, b) ==
    IF b = << >> THEN FALSE
    ELSE IF a = << >> THEN TRUE
         ELSE IF a[1] = b[1] THEN LexLess(Tail(a), Tail(b))
              ELSE Code(a[1]) < Code(b[1])

\* sorted(tokens)
RECURSIVE InsertSorted(_, _)
InsertSorted(t, sorted) ==
    IF sorted = << >> THEN <<t>>
    ELSE IF LexLess(t, sorted[1]) THEN <<t>> \o sorted
         ELSE <<sorted[1]>> \o InsertSorted(t, Tail(sorted))

\* Line 76 without sorted().
Sorted_as_given(tokens) == tokens

RECURSIVE Sorted(_)
Sorted(tokens) ==
    IF tokens = << >> THEN << >>
    ELSE InsertSorted(tokens[Len(tokens)],
                      Sorted(SubSeq(tokens, 1, Len(tokens) - 1)))

\* the set of elements of a sequence
Range(s) == {s[i] : i \in 1..Len(s)}

(***************************************************************************)
(* Name Normalizer (main.py 53-86).                                        *)
(***************************************************************************)
\* The honorifics, in the order of the list `prefixes`.
prefixes ==
    << <<"M", "R">>, <<"M", "R", "S">>, <<"M", "S">>, <<"M", "I", "S", "S">>,
       <<"D", "R">>, <<"S", "I", "R">>, <<"L", "A", "D", "Y">>,
       <<"L", "O", "R", "D">> >>

\* One round of the loop of format_name_proper_order, from prefix number k on.
RECURSIVE StripPrefixesFrom(_, _)
StripPrefixesFrom(s, k) ==
    IF k > Len(prefixes) THEN s
    ELSE StripPrefixesFrom(
             RemoveAll(RemoveAll(s, prefixes[k] \o <<" ">>),
                       prefixes[k] \o <<",", " ">>),
             k + 1)

format_name_proper_order(name) ==
    LET name_upper == StripPrefixesFrom(Upper(name), 1)
        raw        == SplitOn(name_upper, ",")
        parts      == [i \in 1..Len(raw) |-> Strip(raw[i])]
    IN  IF "," \in Range(name_upper) /\ Len(parts) = 2
        THEN Strip(parts[2] \o <<" ">> \o parts[1])
        ELSE Strip(name_upper)

\* The token list `cleaned` of normalize_name and extract_first_last.
NotPrefix(t) == t \notin Range(prefixes)

cleaned(name) ==
    SelectSeq(SplitWs(ReplaceChar(Upper(name), ",", " ")), NotPrefix)

normalize_name(name) == Join(Sorted(cleaned(name)), <<" ">>)

extract_first_last(name) ==
    LET c == cleaned(name)
    IN  IF Len(c) >= 2 THEN <<c[1], c[Len(c)]>>
        ELSE IF c /= << >> THEN <<c[1], c[1]>>
             ELSE << << >>, << >> >>

(***************************************************************************)
(* State.  Each group of variables belongs to one component; a             *)
(* specification of one component leaves the other groups at their initial *)
(* values.                                                                 *)
(***************************************************************************)
VARIABLES
    \* Registry Client: one call of api_call
    apiPc,          \* "idle", "request" (a frame is about to send), "done"
    apiEndpoint,    \* the endpoint of the call
    apiLog,         \* the responses to the HTTP requests sent so far
    apiSlept,       \* milliseconds slept by time.sleep so far
    apiResult,      \* the value returned: None or the parsed body
    apiRaised,      \* TRUE when an exception left api_call
    \* Appointment Categorizer: one call of categorize_companies
    appointments,   \* the argument: the merged appointment list
    catIdx,         \* number of appointments the for loop has taken
    seen,           \* the set `seen`
    categories,     \* the dict `categories`
    \* Match Finder: one iteration of the loop over the roster
    mPc,            \* "start", "done"
    mPerson,        \* the roster entry `person`
    mServer,        \* the script the officer search follows, per query
    mRequests,      \* the requests search_officers has sent
    \* Roster Aggregator: the roster fetch and merge of one search
    gPc,            \* "start", "done"
    gOfficers,      \* what api_call returns for the officers endpoint
    gPscs,          \* what api_call returns for the PSC endpoint
    directors,      \* the list `directors`
    pscs,           \* the list `pscs`
    people,         \* list(people.values()) after the merge
    \* The session: st.session_state and the page the browser shows
    step,           \* st.session_state.step
    company_data,   \* st.session_state.company_data
    people_data,    \* st.session_state.people_data
    match_decisions,\* st.session_state.match_decisions, in insertion order
    radios,         \* the widget state of the radios, by key
    hPc,            \* "idle", or "match" inside the Search Company handler
    hPeople,        \* the local `people` of the handler, as a list
    registry,       \* the script the officer search follows, per query
    event,          \* the interaction that started the last script run
    screen,         \* the page the last script run has rendered
    \* Name Normalizer and confidence: one comparison of two names
    nPc,            \* "start", "done"
    nName,          \* the name of the person
    nTitle,         \* the title of the search hit
    nOut,           \* what the name functions return for them
    \* Appointment fetch: one call of get_all_appointments
    fPc,            \* "loop", "done"
    fServer,        \* what the registry holds and reports for the officer
    fStart,         \* the local `start`
    fAppointments,  \* the local `appointments`
    fRequests       \* the start_index of the requests sent so far

apiVars == <<apiPc, apiEndpoint, apiLog, apiSlept, apiResult, apiRaised>>

catVars == <<appointments, catIdx, seen, categories>>

matchVars == <<mPc, mPerson, mServer, mRequests>>

aggVars == <<gPc, gOfficers, gPscs, directors, pscs, people>>

sessVars ==
    <<step, company_data, people_data, match_decisions, radios, hPc, hPeople,
      registry, event, screen>>

nameVars == <<nPc, nName, nTitle, nOut>>

apptVars == <<fPc, fServer, fStart, fAppointments, fRequests>>

vars == <<apiVars, catVars, matchVars, aggVars, sessVars, nameVars, apptVars>>

(***************************************************************************)
(* Registry Client (main.py 36-50).                                        *)
(***************************************************************************)
\* SLEEP_TIME and the 429 cooldown, in milliseconds.
SLEEP_TIME == 250

COOLDOWN == 2000

\* Most HTTP requests one call may send in the model; the source has no cap.
MaxRequests == 4

Endpoints ==
    { "/company/{number}", "/company/{number}/officers",
      "/company/{number}/persons-with-significant-control",
      "/search/officers", "/officers/{id}/appointments",
      "/company/{number}/insolvency" }

Bodies == { "body1", "body2" }

\* What session.get and r.json() can do: a status with a body that parses, a
\* status 200 whose body does not parse, or an exception of the transport.
Responses ==
    [kind : {"status"}, code : {200}, body : {Some(b) : b \in Bodies}]
    \cup [kind : {"status"}, code : {200}, body : {None}]
    \cup [kind : {"status"}, code : {404, 416, 429, 500, 401}, body : {None}]
    \cup [kind : {"timeout", "connection_error"}, code : {0}, body : {None}]

\* api_call with the retry extended to server errors.
api_handle_retry_5xx(r) ==
    IF r.kind /= "status" THEN [do |-> "return", value |-> None]
    ELSE IF r.code = 200 THEN [do |-> "return", value |-> r.body]
         ELSE IF r.code \in {429, 500} THEN [do |-> "retry", value |-> None]
              ELSE [do |-> "return", value |-> None]

\* What one frame of api_call does with the response to its request:
\* "return" a value, "retry" by calling itself, or "raise".
api_handle(r) ==
    IF r.kind /= "status"
    THEN [do |-> "return", value |-> None]                   \* except Exception
    ELSE IF r.code = 200
         THEN IF r.body = None
              THEN [do |-> "return", value |-> None]  \* r.json() raised
              ELSE [do |-> "return", value |-> r.body]
         ELSE IF r.code \in {404, 416}
              THEN [do |-> "return", value |-> None]
              ELSE IF r.code = 429
                   THEN [do |-> "retry", value |-> None]
                   ELSE [do |-> "return", value |-> None]

ApiIdle ==
    /\ apiPc = "idle"
    /\ apiEndpoint = ""
    /\ apiLog = << >>
    /\ apiSlept = 0
    /\ apiResult = None
    /\ apiRaised = FALSE

\* A caller calls api_call(endpoint, params).
ApiCall(endpoint) ==
    /\ apiPc = "idle"
    /\ apiPc' = "request"
    /\ apiEndpoint' = endpoint
    /\ UNCHANGED <<apiLog, apiSlept, apiResult, apiRaised, catVars, matchVars,
                   aggVars, sessVars,
                   nameVars, apptVars>>

\* One frame of api_call: sleep, send the request, act on the response.
\* A retry is a recursive call: the frame that made it returns its value.
ApiRequest(r) ==
    /\ apiPc = "request"
    /\ api_handle(r).do = "retry" => Len(apiLog) + 1 < MaxRequests
    /\ apiLog' = Append(apiLog, r)
    /\ apiPc' = IF api_handle(r).do = "retry" THEN "request" ELSE "done"
    /\ apiResult' = IF api_handle(r).do = "return"
                    THEN api_handle(r).value
                    ELSE apiResult
    /\ apiRaised' = (apiRaised \/ api_handle(r).do = "raise")
    /\ apiSlept' = apiSlept + SLEEP_TIME
                   + (IF api_handle(r).do = "retry" THEN COOLDOWN ELSE 0)
    /\ UNCHANGED <<apiEndpoint, catVars, matchVars, aggVars, sessVars,
                   nameVars, apptVars>>

(***************************************************************************)
(* Appointment Categorizer (main.py 227-273).                              *)
(***************************************************************************)
\* Most records of a merged appointment list.
MaxAppts == 2

involuntary_statuses ==
    { <<"l","i","q","u","i","d","a","t","i","o","n">>,
      <<"a","d","m","i","n","i","s","t","r","a","t","i","o","n">>,
      <<"r","e","c","e","i","v","e","r","s","h","i","p">>,
      <<"i","n","s","o","l","v","e","n","c","y","-",
        "p","r","o","c","e","e","d","i","n","g","s">>,
      <<"c","o","n","v","e","r","t","e","d","-","c","l","o","s","e","d">> }

dissolved == <<"d","i","s","s","o","l","v","e","d">>

active == <<"a","c","t","i","v","e">>

\* The bodies GET /company/{number}/insolvency may give to api_call.
InsolvencyData ==
    { None,
      Some([etag |-> "e"]),
      Some([cases |-> << >>]),
      Some([cases |-> <<"case">>]) }

\* has_insolvency, given what api_call returned.
has_insolvency(data) ==
    /\ data /= None
    /\ "cases" \in DOMAIN data[1]
    /\ Len(data[1].cases) > 0

\* appt.get('appointed_to', {}).get(field)
AppointedTo(appt, field) ==
    IF appt.appointed_to = None THEN None ELSE appt.appointed_to[1][field]

\* Line 250 without the test of `seen`.
SkipAppointment_no_seen(co_num, seenNow) == ~TruthyStr(co_num)

\* The test of line 250: the record is passed over.
SkipAppointment(co_num, seenNow) ==
    \/ ~TruthyStr(co_num)
    \/ co_num[1] \in seenNow

\* Lines 262-271 with the status tested before the resignation date.
CategoryOf_status_first(appt) ==
    LET co_status == Lower(GetOr(AppointedTo(appt, "company_status"), << >>))
    IN  IF co_status \in involuntary_statuses THEN "involuntary"
        ELSE IF TruthyStr(appt.resigned_on) THEN "resigned"
        ELSE IF co_status = dissolved THEN "dissolved"
        ELSE "active"

\* The list of `categories` the entry of this record is appended to
\* (lines 254 and 262-271).
CategoryOf(appt) ==
    LET co_status == Lower(GetOr(AppointedTo(appt, "company_status"), << >>))
    IN  IF TruthyStr(appt.resigned_on) THEN "resigned"
        ELSE IF co_status \in involuntary_statuses THEN "involuntary"
        ELSE IF co_status = dissolved THEN "dissolved"
        ELSE IF co_status = active THEN "active"
        ELSE "active"

\* The display entry (lines 255-260), as the pieces the f-string joins.
EntryOf(appt, insolvent) ==
    << GetOr(AppointedTo(appt, "company_name"), "Unknown"), " (",
       AppointedTo(appt, "company_number")[1], ")" >>
    \o (IF insolvent THEN << " [Insolvency history]" >> ELSE << >>)

CategoryNames == {"active", "dissolved", "involuntary", "resigned"}

EmptyCategories == [c \in CategoryNames |-> << >>]

\* One iteration of the for loop of categorize_companies.
CategorizeNext ==
    /\ catIdx < Len(appointments)
    /\ catIdx' = catIdx + 1
    /\ LET appt   == appointments[catIdx + 1]
           co_num == AppointedTo(appt, "company_number")
       IN  IF SkipAppointment(co_num, seen)
           THEN UNCHANGED <<seen, categories>>
           ELSE /\ seen' = seen \cup {co_num[1]}
                /\ \E data \in InsolvencyData :
                       categories' =
                           [categories EXCEPT ![CategoryOf(appt)] =
                               Append(@, EntryOf(appt, has_insolvency(data)))]
    /\ UNCHANGED <<appointments, apiVars, matchVars, aggVars, sessVars,
                   nameVars, apptVars>>

(***************************************************************************)
(* Match Finder (main.py 159-200 and 320-350).                             *)
(*                                                                         *)
(* A search hit is [title, date_of_birth, self]: date_of_birth is None or  *)
(* a dict whose month and year may be missing, self is links.self.         *)
(* A link is the sequence of the segments of its path: "/officers/a/x" is  *)
(* <<"officers", "a", "x">> and the empty string is << >>.                 *)
(***************************************************************************)
\* '/officers/' in link
HasOfficersSegment(link) ==
    \E i \in 1..(Len(link) - 1) : link[i] = "officers"

\* link.split('/officers/')[1].split('/')[0]
OfficerIdOf(link) ==
    link[(CHOOSE i \in 1..(Len(link) - 1) :
              /\ link[i] = "officers"
              /\ \A j \in 1..(i - 1) : link[j] /= "officers") + 1]

\* dict.get(key) on item.get('date_of_birth', {})
DobGet(date_of_birth, key) ==
    IF date_of_birth = None THEN None ELSE date_of_birth[1][key]

match_dob(officer, target_month, target_year) ==
    /\ DobGet(officer.date_of_birth, "month") = target_month
    /\ DobGet(officer.date_of_birth, "year") = target_year

\* max_pages, the default of search_officers, and items_per_page.
max_pages == 10

PageSize == 50

\* The response of the server to request number page (from 0) of query
\* number q: the server is a sequence of responses per query, absent beyond.
ResponseOf(server, q, page) ==
    IF page + 1 <= Len(server[q]) THEN server[q][page + 1] ELSE None

\* `not data or 'items' not in data`
NoItems(data) == data = None \/ data[1].items = None

\* The officer id the loop of lines 182-188 reads off an item: the segment
\* after "officers", or none when the link has no such segment or the segment
\* is empty.
ItemId(item) ==
    IF HasOfficersSegment(item.self) /\ OfficerIdOf(item.self) /= ""
    THEN Some(OfficerIdOf(item.self))
    ELSE None

\* Element number k of the increasing enumeration of a finite set of numbers.
Nth(S, k) == CHOOSE i \in S : Cardinality({j \in S : j < i}) = k - 1

\* Lines 182-188 without the test of seen_officer_ids.
CollectItems_no_seen(acc, items) ==
    LET taken == {i \in 1..Len(items) : ItemId(items[i]) /= None}
    IN  [acc EXCEPT
            !.seen_officer_ids = @ \cup {ItemId(items[i])[1] : i \in taken},
            !.results = @ \o [k \in 1..Cardinality(taken) |->
                                 items[Nth(taken, k)]]]

\* The loop of lines 182-188 over the items of one page: an item is taken
\* when it has an id that is not in seen_officer_ids, which by then holds
\* the ids of the items before it.
CollectItems(acc, items) ==
    LET taken == {i \in 1..Len(items) :
                    /\ ItemId(items[i]) /= None
                    /\ ItemId(items[i])[1] \notin acc.seen_officer_ids
                    /\ \A j \in 1..(i - 1) : ItemId(items[j]) /= ItemId(items[i])}
    IN  [acc EXCEPT
            !.seen_officer_ids = @ \cup {ItemId(items[i])[1] : i \in taken},
            !.results = @ \o [k \in 1..Cardinality(taken) |->
                                 items[Nth(taken, k)]]]

\* The inner loop of search_officers for query number q, from page on.
RECURSIVE SearchPages(_, _, _, _, _)
SearchPages(acc, queries, server, q, page) ==
    IF page >= max_pages THEN acc
    ELSE LET data == ResponseOf(server, q, page)
             sent == [acc EXCEPT !.requests =
                         Append(@, [q           |-> queries[q],
                                    query       |-> q,
                                    start_index |-> page * PageSize])]
         IN  IF NoItems(data) THEN sent
             ELSE LET got == CollectItems(sent, data[1].items[1])
                  IN  IF \/ Len(data[1].items[1]) < PageSize
                         \/ GetOr(data[1].total_results, 0)
                              <= (page + 1) * PageSize
                      THEN got
                      ELSE SearchPages(got, queries, server, q, page + 1)

\* The outer loop of search_officers ending with the query that got no
\* items on its first page.
RECURSIVE SearchQueries_until_empty(_, _, _, _)
SearchQueries_until_empty(acc, queries, server, q) ==
    IF q > Len(queries) \/ (q > 1 /\ NoItems(ResponseOf(server, q - 1, 0))) THEN acc
    ELSE SearchQueries_until_empty(SearchPages(acc, queries, server, q, 0),
                                   queries, server, q + 1)

\* The outer loop of search_officers, from query number q on.
RECURSIVE SearchQueries(_, _, _, _)
SearchQueries(acc, queries, server, q) ==
    IF q > Len(queries) THEN acc
    ELSE SearchQueries(SearchPages(acc, queries, server, q, 0),
                       queries, server, q + 1)

\* search_officers: `results`, with the set of ids seen and the requests
\* sent (q, start_index) in the order they were sent.
search_officers(first, last, full_name, server) ==
    SearchQueries(
        [results |-> << >>, seen_officer_ids |-> {}, requests |-> << >>],
        << full_name,
           first \o <<" ">> \o last,
           last \o <<" ">> \o first,
           last \o <<",", " ">> \o first >>,
        server, 1)

\* Lines 326-328: the original officer id, when the person has one.
OriginalIds(person) ==
    IF TruthyStr(person.officer_id) THEN <<person.officer_id[1]>> ELSE << >>

\* Lines 337-347: the DOB filter over officer_results.
FilterByDob(officer_results, person, verified_ids) ==
    LET keep(o) == /\ match_dob(o, person.dob_month, person.dob_year)
                   /\ HasOfficersSegment(o.self)
                   /\ OfficerIdOf(o.self) \notin Range(verified_ids)
        kept    == SelectSeq(officer_results, keep)
    IN  [k \in 1..Len(kept) |->
            [officer |-> kept[k], officer_id |-> OfficerIdOf(kept[k].self)]]

\* `not first or not last` (line 322)
NoFirstLast(name) ==
    extract_first_last(name)[1] = << >> \/ extract_first_last(name)[2] = << >>

\* The call of search_officers of lines 331-334; no call is made when the
\* iteration ends at the `continue` of line 323.
SearchFor(person, server) ==
    IF NoFirstLast(person.name)
    THEN [results |-> << >>, seen_officer_ids |-> {}, requests |-> << >>]
    ELSE CHOOSE found \in
             { search_officers(first_last[1], first_last[2], full_name, server) :
                 first_last \in {extract_first_last(person.name)},
                 full_name \in {format_name_proper_order(person.name)} } : TRUE

\* One iteration of the loop of lines 320-350: the person after it, given
\* officer_results.  The keys potential_matches and verified_ids are set
\* unless the iteration ends at the `continue` of line 323.
FindMatches(person, officer_results) ==
    IF NoFirstLast(person.name) THEN person
    ELSE [person EXCEPT
             !.potential_matches =
                 Some(FilterByDob(officer_results, person, OriginalIds(person))),
             !.verified_ids = Some(OriginalIds(person))]

CatIdle ==
    /\ appointments = << >>
    /\ catIdx = 0
    /\ seen = {}
    /\ categories = EmptyCategories

(***************************************************************************)
(* The appointment records the registry is taken to serve.                 *)
(***************************************************************************)
Appt(num, status, name, resigned) ==
    [ appointed_to |-> Some([ company_number |-> num,
                              company_status |-> status,
                              company_name   |-> name ]),
      resigned_on  |-> resigned ]

unknown_status == <<"o","p","e","n">>

StatusInputs ==
    {Some(w) : w \in involuntary_statuses \cup
                     {dissolved, active, unknown_status, << >>}}
    \cup {Some(Upper(w)) : w \in {<<"l","i","q","u","i","d","a","t","i","o","n">>,
                                  dissolved,
                                  <<"c","o","n","v","e","r","t","e","d","-",
                                    "c","l","o","s","e","d">>}}
    \cup {None}

ResignedInputs == {None, Some("2020-01-31")}

ApptPool ==
    {Appt(Some("1"), st, Some("AcmeCo"), r) :
         st \in StatusInputs, r \in ResignedInputs}
    \cup {Appt(Some("2"), st, Some("OldCo"), r) :
         st \in {Some(active),
                 Some(Upper(<<"l","i","q","u","i","d","a","t","i","o","n">>))},
         r \in ResignedInputs}
    \cup { Appt(None, Some(active), Some("NoNumber"), None),
           Appt(Some(""), Some(dissolved), Some("EmptyNumber"), None),
           Appt(Some("1"), Some(dissolved), None, None),
           [appointed_to |-> None, resigned_on |-> Some("2020-01-31")] }

ApptLists == UNION {[1..n -> ApptPool] : n \in 0..MaxAppts}

(***************************************************************************)
(* The names, roster entries and search results the registry is taken to   *)
(* serve.                                                                  *)
(***************************************************************************)
SmithJohn == <<"S","M","I","T","H",","," ","J","o","h","n">>

JohnSmith == <<"J","o","h","n"," ","S","M","I","T","H">>

JonSmith == <<"J","o","n"," ","S","M","I","T","H">>

JohnSmyth == <<"J","O","H","N"," ","S","M","Y","T","H">>

AdamsJo == <<"A","D","A","M","S",","," ","J","o">>

OnlyTitle == <<"M","r">>

Dob(month, year) == Some([month |-> month, year |-> year])

Hit(title, dob, self) == [title |-> title, date_of_birth |-> dob, self |-> self]

OfficerLink(id) == <<"officers", id, "appointments">>

hitA == Hit(JohnSmith, Dob(Some(3), Some(1975)), OfficerLink("a"))

hitB == Hit(JonSmith, Dob(Some(3), Some(1975)), OfficerLink("b"))

\* the id of hitA with another date of birth
hitA2 == Hit(SmithJohn, Dob(Some(4), Some(1980)), OfficerLink("a"))

\* no date of birth at all
hitC == Hit(JohnSmith, None, OfficerLink("c"))

\* a month and no year
hitD == Hit(SmithJohn, Dob(Some(3), None), OfficerLink("d"))

hitE == Hit(AdamsJo, Dob(Some(4), Some(1980)), OfficerLink("e"))

hitF == Hit(JohnSmyth, Dob(Some(3), Some(1975)), OfficerLink("f"))

\* links.self missing, and a link whose id segment is empty
hitNoLink == Hit(JohnSmith, Dob(Some(3), Some(1975)), << >>)

hitEmptyId == Hit(JohnSmith, Dob(Some(3), Some(1975)), <<"officers", "">>)

Body(items, total) == Some([items |-> Some(items), total_results |-> total])

\* A page of PageSize items: the given ones, then copies of filler.
FullPage(given, filler) ==
    given \o [i \in 1..(PageSize - Len(given)) |-> filler]

\* What the server may answer to the successive pages of one query: nothing,
\* a body without items, short pages, a full page followed by a short one,
\* and a full page whose reported total it already covers.
QueryScripts ==
    << << >>,
       << Some([items |-> None, total_results |-> Some(1)]) >>,
       << Body(<<hitA, hitB, hitF, hitB>>, Some(4)) >>,
       << Body(<<hitA2, hitC, hitNoLink, hitEmptyId, hitD, hitA>>, None) >>,
       << Body(FullPage(<<hitB>>, hitE), Some(60)),
          Body(<<hitC, hitA>>, Some(60)) >>,
       << Body(FullPage(<<hitD>>, hitE), Some(50)),
          Body(<<hitF>>, Some(50)) >> >>

\* A query the registry never stops answering: full pages, one more than
\* max_pages, under a total that no page covers.
EndlessScript ==
    [ p \in 1..(max_pages + 1) |-> Body(FullPage(<<hitB>>, hitE), Some(1000)) ]

\* The state names the script of each of the four queries by its number, the
\* number after those of QueryScripts being that of EndlessScript.
ServerOf(scripts) ==
    [q \in 1..4 |-> Append(QueryScripts, EndlessScript)[scripts[q]]]

Servers == [1..4 -> 1..Len(QueryScripts)]

\* A roster entry as the aggregation leaves it.
Person(name, month, year, roles, officer_id) ==
    [ name |-> name, dob_month |-> month, dob_year |-> year,
      roles |-> roles, officer_id |-> officer_id,
      potential_matches |-> None, verified_ids |-> None ]

DobInputs ==
    { <<None, None>>, <<Some(3), Some(1975)>>, <<Some(3), None>>,
      <<Some(4), Some(1980)>> }

MatchPersons ==
    { Person(SmithJohn, d[1], d[2], <<"Director">>, id) :
        d \in DobInputs, id \in {None, Some("a")} }
    \cup { Person(OnlyTitle, Some(3), Some(1975), <<"Director">>, Some("a")),
           Person(OnlyTitle, None, None, <<"PSC">>, None) }

MatchIdle ==
    /\ mPc = "start"
    /\ mPerson = Person(<< >>, None, None, << >>, None)
    /\ mServer = [q \in 1..4 |-> 1]
    /\ mRequests = << >>

\* Lines 320-350 for one person.
MatchFind ==
    /\ mPc = "start"
    /\ mPc' = "done"
    /\ \E found \in {SearchFor(mPerson, ServerOf(mServer))} :
           /\ mPerson' = FindMatches(mPerson, found.results)
           /\ mRequests' = found.requests
    /\ UNCHANGED <<mServer, apiVars, catVars, aggVars, sessVars,
                   nameVars, apptVars>>

(***************************************************************************)
(* Roster Aggregator (main.py 113-156 and 301-313).                        *)
(***************************************************************************)
(* An item of the officers endpoint has the fields name, date_of_birth,    *)
(* resigned_on and appointments (links.officer.appointments); an item of   *)
(* the PSC endpoint has name, date_of_birth, ceased_on and kind, the kind  *)
(* being the sequence of the words its hyphens separate.                   *)
(***************************************************************************)
\* One entry of `directors` (lines 122-134).
DirectorOf(item) ==
    Person(GetOr(item.name, << >>),
           DobGet(item.date_of_birth, "month"),
           DobGet(item.date_of_birth, "year"),
           <<"Director">>,
           IF HasOfficersSegment(item.appointments)
           THEN Some(OfficerIdOf(item.appointments))
           ELSE None)

\* item.get('resigned_on') is None
NotResigned(item) == item.resigned_on = None

get_current_directors(data) ==
    IF NoItems(data) THEN << >>
    ELSE LET current == SelectSeq(data[1].items[1], NotResigned)
         IN  [k \in 1..Len(current) |-> DirectorOf(current[k])]

\* One entry of `pscs` (lines 148-155).
PscOf(item) ==
    Person(GetOr(item.name, << >>),
           DobGet(item.date_of_birth, "month"),
           DobGet(item.date_of_birth, "year"),
           <<"PSC">>,
           None)

\* item.get('ceased_on') is None and 'individual' in item.get('kind', '')
CurrentIndividual(item) ==
    /\ item.ceased_on = None
    /\ "individual" \in Range(GetOr(item.kind, << >>))

get_current_pscs(data) ==
    IF NoItems(data) THEN << >>
    ELSE LET current == SelectSeq(data[1].items[1], CurrentIndividual)
         IN  [k \in 1..Len(current) |-> PscOf(current[k])]

\* The key of line 307 without the date of birth.
KeyOf_name_only(person) == <<normalize_name(person.name)>>

\* The key of line 307.
KeyOf(person) ==
    <<normalize_name(person.name), person.dob_month, person.dob_year>>

\* Lines 306-313: the loop over chain(directors, pscs); `merged` is the
\* dict `people` as the list of its values, in insertion order.
RECURSIVE Merge(_, _)
Merge(merged, items) ==
    IF items = << >> THEN merged
    ELSE LET person == Head(items)
             same   == { k \in 1..Len(merged) : KeyOf(merged[k]) = KeyOf(person) }
         IN  IF same /= {}
             THEN LET k == CHOOSE k \in same : TRUE
                  IN  Merge([merged EXCEPT
                                ![k].roles = @ \o person.roles,
                                ![k].officer_id =
                                    IF TruthyStr(person.officer_id) /\ ~TruthyStr(@)
                                    THEN person.officer_id
                                    ELSE @],
                            Tail(items))
             ELSE Merge(Append(merged, person), Tail(items))

AggIdle ==
    /\ gPc = "start"
    /\ gOfficers = None
    /\ gPscs = None
    /\ directors = << >>
    /\ pscs = << >>
    /\ people = << >>

\* Lines 301-313 for one pair of responses.
Aggregate ==
    /\ gPc = "start"
    /\ gPc' = "done"
    /\ directors' = get_current_directors(gOfficers)
    /\ pscs' = get_current_pscs(gPscs)
    /\ people' = Merge(<< >>, directors' \o pscs')
    /\ UNCHANGED <<gOfficers, gPscs, apiVars, catVars, matchVars, sessVars,
                   nameVars, apptVars>>

(***************************************************************************)
(* The rosters the registry is taken to serve.                             *)
(***************************************************************************)
MaxDirectors == 2

MaxPscs == 1

MrJohnSmith == <<"M","r"," ","J","o","h","n"," ","S","m","i","t","h">>

OfficerItem(name, dob, resigned_on, link) ==
    [ name |-> name, date_of_birth |-> dob, resigned_on |-> resigned_on,
      appointments |-> link ]

PscItem(name, dob, ceased_on, kind) ==
    [ name |-> name, date_of_birth |-> dob, ceased_on |-> ceased_on,
      kind |-> kind ]

individual == Some(<<"individual", "person", "with", "significant", "control">>)

corporate == Some(<<"corporate", "entity", "person", "with", "significant", "control">>)

\* Current officers with and without a link, with an empty id segment, with
\* no date of birth and with no name, and a resigned one.
OfficerPool ==
    { OfficerItem(Some(SmithJohn), Dob(Some(3), Some(1975)), None, OfficerLink("a")),
      OfficerItem(Some(JohnSmith), Dob(Some(3), Some(1975)), None, OfficerLink("b")),
      OfficerItem(Some(SmithJohn), Dob(Some(3), Some(1975)), None, << >>),
      OfficerItem(Some(SmithJohn), None, None, <<"officers", "">>),
      OfficerItem(Some(AdamsJo), Dob(Some(4), Some(1980)), None, OfficerLink("e")),
      OfficerItem(None, Dob(Some(3), Some(1975)), None, OfficerLink("f")),
      OfficerItem(Some(SmithJohn), Dob(Some(3), Some(1975)), Some("2020-01-01"),
                  OfficerLink("c")) }

PscPool ==
    { PscItem(Some(MrJohnSmith), Dob(Some(3), Some(1975)), None, individual),
      PscItem(Some(AdamsJo), Dob(Some(4), Some(1980)), None, individual),
      PscItem(Some(SmithJohn), Dob(Some(3), Some(1975)), None, corporate),
      PscItem(Some(SmithJohn), Dob(Some(3), Some(1975)), Some("2021-06-30"), individual),
      PscItem(Some(SmithJohn), Dob(Some(3), Some(1975)), None, None) }

\* What api_call may return for a roster endpoint: nothing, a body without
\* items, or a body with up to max items of the pool.
RosterData(pool, max) ==
    { None, Some([items |-> None]) }
    \cup { Some([items |-> Some(list)]) :
             list \in UNION { [1..n -> pool] : n \in 0..max } }

(***************************************************************************)
(* Confidence (main.py 89-91): SequenceMatcher(None, a, b).ratio() is      *)
(* 2*M/T, M the total size of the matching blocks and T the two lengths    *)
(* together, and 1.0 when T = 0.  No character is junk at these lengths.   *)
(***************************************************************************)
\* The longest block a[i..i+k-1] = b[j..j+k-1] inside a[alo..ahi] and
\* b[blo..bhi] as <<i, j, k>>: of the longest ones the earliest in a, and of
\* those the earliest in b; k = 0 when no character matches.
find_longest_match(a, b, alo, ahi, blo, bhi) ==
    LET blocks == { m \in (alo..ahi) \X (blo..bhi) \X (1..(ahi - alo + 1)) :
                      /\ m[1] + m[3] - 1 <= ahi
                      /\ m[2] + m[3] - 1 <= bhi
                      /\ \A d \in 0..(m[3] - 1) : a[m[1] + d] = b[m[2] + d] }
    IN  IF blocks = {} THEN <<alo, blo, 0>>
        ELSE CHOOSE m \in blocks : \A n \in blocks :
                 \/ m[3] > n[3]
                 \/ m[3] = n[3] /\ m[1] < n[1]
                 \/ m[3] = n[3] /\ m[1] = n[1] /\ m[2] <= n[2]

\* The total size of the matching blocks: the longest block, then the same
\* to its left and to its right.
RECURSIVE MatchingSize(_, _, _, _, _, _)
MatchingSize(a, b, alo, ahi, blo, bhi) ==
    IF alo > ahi \/ blo > bhi THEN 0
    ELSE CHOOSE size \in
             { IF m[3] = 0 THEN 0
               ELSE m[3]
                    + MatchingSize(a, b, alo, m[1] - 1, blo, m[2] - 1)
                    + MatchingSize(a, b, m[1] + m[3], ahi, m[2] + m[3], bhi) :
                 m \in {find_longest_match(a, b, alo, ahi, blo, bhi)} } : TRUE

\* name_similarity: the ratio 2*M/T as the pair of M and T.
name_similarity(name1, name2) ==
    LET a == Upper(name1)
        b == Upper(name2)
    IN  [ matches |-> MatchingSize(a, b, 1, Len(a), 1, Len(b)),
          length  |-> Len(a) + Len(b) ]

\* similarity >= percent / 100
AtLeast(similarity, percent) ==
    \/ similarity.length = 0
    \/ 200 * similarity.matches >= percent * similarity.length

\* get_confidence_label with > for >=.
get_confidence_label_exclusive(similarity) ==
    LET More(percent) ==
            \/ similarity.length = 0
            \/ 200 * similarity.matches > percent * similarity.length
    IN  IF More(95) THEN "VERY HIGH"
        ELSE IF More(85) THEN "HIGH"
        ELSE IF More(70) THEN "MEDIUM"
        ELSE IF More(50) THEN "LOW"
        ELSE "VERY LOW"

\* get_confidence_label (lines 94-105): the label, without its colour.
get_confidence_label(similarity) ==
    IF AtLeast(similarity, 95) THEN "VERY HIGH"
    ELSE IF AtLeast(similarity, 85) THEN "HIGH"
    ELSE IF AtLeast(similarity, 70) THEN "MEDIUM"
    ELSE IF AtLeast(similarity, 50) THEN "LOW"
    ELSE "VERY LOW"

\* name_similarity(name1, name2) >= percent / 100
SimilarityAtLeast(name1, name2, percent) ==
    AtLeast(name_similarity(name1, name2), percent)

(***************************************************************************)
(* The pages (main.py 282-527).  A script run renders the page of the      *)
(* current step; a rerun renders again.                                    *)
(***************************************************************************)
Page(notice, buttons, raised, results) ==
    [ notice |-> notice, buttons |-> buttons, raised |-> raised,
      results |-> results ]

\* Step 1 with the message of the handler, if any.
InputPage(notice) == Page(notice, {"search_company"}, FALSE, << >>)

\* f"person{person_idx}_match{match_idx}"
MatchKey(person_idx, match_idx) == <<"person", person_idx, "_match", match_idx>>

\* person.get('potential_matches', [])
MatchesOf(person) == GetOr(person.potential_matches, << >>)

\* The (person_idx, match_idx) pairs of the two loops of lines 370 and 385,
\* in the order the loops take them, from person number person_idx on.
RECURSIVE Slots(_, _)
Slots(persons, person_idx) ==
    IF person_idx >= Len(persons) THEN << >>
    ELSE [ m \in 1..Len(MatchesOf(persons[person_idx + 1])) |->
             [person_idx |-> person_idx, match_idx |-> m - 1] ]
         \o Slots(persons, person_idx + 1)

MatchAt(persons, slot) == MatchesOf(persons[slot.person_idx + 1])[slot.match_idx + 1]

\* Line 391 raises when the candidate has no month: '??' has no format 02d.
FormatRaises(persons, slot) ==
    DobGet(MatchAt(persons, slot).officer.date_of_birth, "month") = None

\* The slots whose radio the run renders: all, or those before the first
\* one at which line 391 raises.
RadiosShown(persons) ==
    LET slots == Slots(persons, 0)
        bad   == { i \in 1..Len(slots) : FormatRaises(persons, slots[i]) }
    IN  IF bad = {} THEN slots
        ELSE SubSeq(slots, 1, (CHOOSE i \in bad : \A j \in bad : i <= j) - 1)

ReviewRaises(persons) ==
    \E i \in 1..Len(Slots(persons, 0)) : FormatRaises(persons, Slots(persons, 0)[i])

\* Lines 389-394 and 414: the option the radio starts with.
DefaultDecision(persons, slot) ==
    IF SimilarityAtLeast(
           format_name_proper_order(persons[slot.person_idx + 1].name),
           format_name_proper_order(MatchAt(persons, slot).officer.title), 85)
    THEN "Yes" ELSE "No"

\* Lines 409-415: what st.radio returns, the state of the widget when it has
\* one and the option of `index` when it is new.
RadioValue(persons, widget, slot) ==
    IF MatchKey(slot.person_idx, slot.match_idx) \in DOMAIN widget
    THEN widget[MatchKey(slot.person_idx, slot.match_idx)]
    ELSE DefaultDecision(persons, slot)

\* Lines 386-415 for the radios a run renders: the key, the fields of the
\* entry of line 419 and the decision st.radio returns.
RunEntries(persons, widget) ==
    LET shown == RadiosShown(persons)
    IN  [ i \in 1..Len(shown) |->
            [ key |-> MatchKey(shown[i].person_idx, shown[i].match_idx),
              person_idx |-> shown[i].person_idx,
              officer_id |-> MatchAt(persons, shown[i]).officer_id,
              decision |-> RadioValue(persons, widget, shown[i]) ] ]

\* Lines 418-425 over a run: an entry whose key is in the dict only gets the
\* decision of the run, a new key is added after the keys the dict has.
StoreDecisions(decisions, entries) ==
    LET known  == { decisions[k].key : k \in 1..Len(decisions) }
        At(key) == CHOOSE i \in 1..Len(entries) : entries[i].key = key
        IsNew(entry) == entry.key \notin known
    IN  [ k \in 1..Len(decisions) |->
            IF \E i \in 1..Len(entries) : entries[i].key = decisions[k].key
            THEN [decisions[k] EXCEPT !.decision = entries[At(decisions[k].key)].decision]
            ELSE decisions[k] ]
        \o SelectSeq(entries, IsNew)

\* The widget state a run leaves: the value of every radio it rendered.
WidgetState(entries) ==
    [ key \in { entries[i].key : i \in 1..Len(entries) } |->
        entries[CHOOSE i \in 1..Len(entries) : entries[i].key = key].decision ]

\* Step 2 as one script run (lines 359-437): the decisions and the widget
\* state it leaves and the page it renders.  The buttons of lines 431 and
\* 435 are not reached when line 391 raises.
ReviewRun(persons, decisions, widget) ==
    CHOOSE run \in
        { [ match_decisions |-> StoreDecisions(decisions, entries),
            radios |-> WidgetState(entries),
            page |-> Page(None,
                          IF ReviewRaises(persons) THEN {}
                          ELSE {"confirm", "start_over"},
                          ReviewRaises(persons), << >>) ] :
            entries \in {RunEntries(persons, widget)} } : TRUE

\* Lines 459-461: the officer ids of the confirmed matches of one person.
ConfirmedIds_any_person(decisions, person_idx) ==
    LET Yes(d) == d.decision = "Yes"
        yes    == SelectSeq(decisions, Yes)
    IN  [ i \in 1..Len(yes) |-> yes[i].officer_id ]

ConfirmedIds(decisions, person_idx) ==
    LET Yes(d) == d.person_idx = person_idx /\ d.decision = "Yes"
        yes    == SelectSeq(decisions, Yes)
    IN  [ i \in 1..Len(yes) |-> yes[i].officer_id ]

\* Lines 456-461: verified_ids of the person at person_idx.
VerifiedIdsOf(persons, decisions, person_idx) ==
    GetOr(persons[person_idx + 1].verified_ids, << >>)
    \o ConfirmedIds(decisions, person_idx)

\* Lines 463-522 for one person.  Without ids the run shows the message of
\* line 465 and goes on to the next person.  All of lines 470-522 stands
\* inside that branch, after its `continue`, so with ids the run calls
\* neither get_all_appointments nor categorize_companies and shows nothing.
ResultOf(verified_ids) ==
    [ verified_ids |-> verified_ids,
      info |-> IF verified_ids = << >> THEN Some("No officer IDs confirmed")
               ELSE None,
      fetched |-> << >>,
      categories |-> None ]

\* Step 3 as one script run (lines 440-527).  The button of line 525 is
\* inside the loop, after the `continue`: it is rendered for a person who has
\* ids.
ResultsRun(persons, decisions) ==
    CHOOSE shown \in
        { Page(None,
               IF \E k \in 1..Len(results) : results[k].verified_ids /= << >>
               THEN {"search_another"} ELSE {},
               FALSE, results) :
            results \in { [ k \in 1..Len(persons) |->
                              ResultOf(VerifiedIdsOf(persons, decisions, k - 1)) ] } }
        : TRUE

(***************************************************************************)
(* The session (main.py 22-33 and the handlers of the three steps).  An    *)
(* action is one interaction of the user with the script runs it starts,   *)
(* up to the page that stays on the screen; the Search Company handler is  *)
(* taken in two parts, before and after the roster is merged.              *)
(***************************************************************************)
\* Lines 22-33, as they leave a new or a cleared session.
Cleared ==
    /\ step = "input"
    /\ company_data = None
    /\ people_data = << >>
    /\ match_decisions = << >>
    /\ radios = << >>
    /\ hPc = "idle"
    /\ hPeople = << >>
    /\ registry = [q \in 1..4 |-> 1]
    /\ screen = InputPage(None)

SessIdle == Cleared /\ event = "open"

\* Lines 315-317 without the test of `people`.
AfterAggregation_always_match(found, merged) ==
    IF found THEN "match" ELSE "idle"

\* Where the handler stands after lines 291-317: it goes on to the search
\* for matches when the company is found and the roster is not empty.
AfterAggregation(found, merged) ==
    IF found /\ merged /= << >> THEN "match" ELSE "idle"

\* Lines 291-317 and 356: the message the handler shows, if any.
NoticeOf(company_number, found, merged) ==
    IF company_number = << >> THEN Some("Please enter a company number")
    ELSE IF ~found THEN Some("Company not found")
    ELSE IF merged = << >> THEN Some("No current directors or PSCs found")
    ELSE None

\* The button of line 290, up to line 317: text is what the user typed,
\* company, officers and pscData what api_call returns for the three
\* endpoints.
SearchCompany(text, company, officers, pscData) ==
    /\ step = "input"
    /\ hPc = "idle"
    /\ "search_company" \in screen.buttons
    /\ event' = "search_company"
    /\ \E company_number \in {Upper(Strip(text))} :
       \E found \in {company_number /= << >> /\ company /= None} :
       \E merged \in {IF found
                      THEN Merge(<< >>, get_current_directors(officers)
                                        \o get_current_pscs(pscData))
                      ELSE << >>} :
           /\ company_data' = IF found THEN company ELSE company_data
           /\ hPc' = AfterAggregation(found, merged)
           /\ hPeople' = IF AfterAggregation(found, merged) = "match"
                         THEN merged ELSE << >>
           /\ screen' = InputPage(NoticeOf(company_number, found, merged))
    /\ UNCHANGED <<step, people_data, match_decisions, radios, registry>>
    /\ UNCHANGED <<apiVars, catVars, matchVars, aggVars, nameVars, apptVars>>

\* Lines 318-354 and the run of step 2 that st.rerun() starts: server is
\* what the registry answers to the officer searches.
FindAllMatches(server) ==
    /\ hPc = "match"
    /\ hPc' = "idle"
    /\ hPeople' = << >>
    /\ registry' = server
    /\ step' = "review_matches"
    /\ \E matched \in { [ k \in 1..Len(hPeople) |->
                            FindMatches(hPeople[k],
                                SearchFor(hPeople[k], ServerOf(server)).results) ] } :
       \E run \in {ReviewRun(matched, match_decisions, radios)} :
           /\ people_data' = matched
           /\ match_decisions' = run.match_decisions
           /\ radios' = run.radios
           /\ screen' = run.page
    /\ UNCHANGED <<company_data, event>>
    /\ UNCHANGED <<apiVars, catVars, matchVars, aggVars, nameVars, apptVars>>

\* The user picks the other option of a radio; the run stores the decisions.
SetRadio(key, value) ==
    /\ step = "review_matches"
    /\ key \in DOMAIN radios
    /\ radios[key] /= value
    /\ event' = "radio"
    /\ \E run \in {ReviewRun(people_data, match_decisions,
                             [radios EXCEPT ![key] = value])} :
           /\ match_decisions' = run.match_decisions
           /\ radios' = run.radios
           /\ screen' = run.page
    /\ UNCHANGED <<step, company_data, people_data, hPc, hPeople, registry>>
    /\ UNCHANGED <<apiVars, catVars, matchVars, aggVars, nameVars, apptVars>>

ChangeRadio ==
    \E key \in DOMAIN radios, value \in {"Yes", "No"} : SetRadio(key, value)

\* A script run that no widget started, on the review page.
RerunReview ==
    /\ step = "review_matches"
    /\ event' = "rerun"
    /\ \E run \in {ReviewRun(people_data, match_decisions, radios)} :
           /\ match_decisions' = run.match_decisions
           /\ radios' = run.radios
           /\ screen' = run.page
    /\ UNCHANGED <<step, company_data, people_data, hPc, hPeople, registry>>
    /\ UNCHANGED <<apiVars, catVars, matchVars, aggVars, nameVars, apptVars>>

\* The button of line 431: the run renders step 2, sets the step, and the
\* rerun renders step 3.
Confirm ==
    /\ step = "review_matches"
    /\ "confirm" \in screen.buttons
    /\ event' = "confirm"
    /\ step' = "show_results"
    /\ \E run \in {ReviewRun(people_data, match_decisions, radios)} :
           /\ match_decisions' = run.match_decisions
           /\ radios' = << >>
           /\ screen' = ResultsRun(people_data, run.match_decisions)
    /\ UNCHANGED <<company_data, people_data, hPc, hPeople, registry>>
    /\ UNCHANGED <<apiVars, catVars, matchVars, aggVars, nameVars, apptVars>>

\* st.session_state.clear() and st.rerun(): the rerun starts from the
\* defaults of lines 22-33 and renders step 1.
ClearAndRerun ==
    /\ step' = "input"
    /\ company_data' = None
    /\ people_data' = << >>
    /\ match_decisions' = << >>
    /\ radios' = << >>
    /\ hPc' = "idle"
    /\ hPeople' = << >>
    /\ registry' = [q \in 1..4 |-> 1]
    /\ screen' = InputPage(None)

\* The buttons of lines 435 and 525.
StartOver ==
    /\ step = "review_matches"
    /\ "start_over" \in screen.buttons
    /\ event' = "start_over"
    /\ ClearAndRerun
    /\ UNCHANGED <<apiVars, catVars, matchVars, aggVars, nameVars, apptVars>>

SearchAnother ==
    /\ step = "show_results"
    /\ "search_another" \in screen.buttons
    /\ event' = "search_another"
    /\ ClearAndRerun
    /\ UNCHANGED <<apiVars, catVars, matchVars, aggVars, nameVars, apptVars>>

(***************************************************************************)
(* What the session is taken to meet.                                      *)
(***************************************************************************)
Texts == { << >>, <<" ">>, <<" ", "s", "c", "1", "2", " ">> }

Companies ==
    { None,
      Some([ company_name |-> "ACME LTD", company_number |-> "SC12",
             company_status |-> "active" ]) }

SessionOfficers ==
    { OfficerItem(Some(SmithJohn), Dob(Some(3), Some(1975)), None, OfficerLink("a")),
      OfficerItem(Some(SmithJohn), None, None, << >>),
      OfficerItem(Some(AdamsJo), Dob(Some(4), Some(1980)), None, OfficerLink("e")),
      OfficerItem(Some(OnlyTitle), Dob(Some(3), Some(1975)), None, OfficerLink("f")) }

SessionPscs ==
    { PscItem(Some(MrJohnSmith), Dob(Some(3), Some(1975)), None, individual),
      PscItem(Some(JohnSmyth), Dob(Some(3), Some(1975)), None, individual) }

\* The registry answers every search with nothing, or the four queries
\* with one of three lists of hits.
SessionServers ==
    { [q \in 1..4 |-> 1], [q \in 1..4 |-> 3], [q \in 1..4 |-> 4],
      <<3, 1, 2, 4>> }

(***************************************************************************)
(* The names the registry is taken to hold, and one comparison of two of   *)
(* them as the review page makes it (main.py 389-395 and 414).             *)
(***************************************************************************)
\* Names with and without a comma, with honorifics, with letters of an
\* honorific inside a word, with two commas, the empty name, and pairs whose
\* similarity is 0.5, 0.7, 0.85 and 0.95.
NamePool ==
    { SmithJohn, JohnSmith, JonSmith, JohnSmyth, AdamsJo, OnlyTitle,
      MrJohnSmith, << >>,
      <<"R","O","B","I","N","S","O","N",","," ","C","h","r","i","s","t","o","p","h","e","r">>,
      <<"C","h","r","i","s","t","o","p","h","e","r"," ","R","O","B","I","N","E","T","T">>,
      <<"C","h","r","i","s","t","o","p","h","e","r"," ","R","O","B","I","N","S","O","M">>,
      <<"J","o","h","n"," ","S","m","y","r","k">>,
      <<"J","o">>,
      <<"J","a">>,
      <<"S","M","I","T","H",","," ","J","o","h","n",","," ","J","r">>,
      <<"T","i","d","e">>,
      <<"D","i","e","t">>,
      <<"D","r"," ","L","o","r","d","a","n",","," ","S","i","r","i","u","s">> }

NameIdle ==
    /\ nPc = "start"
    /\ nName = << >>
    /\ nTitle = << >>
    /\ nOut = None

\* What the name functions return for the name of a person and the title of
\* a search hit: the display name of the person, the keys of the two, the
\* similarity of the display names with its label and the option the radio
\* starts with, and name_similarity of the two names in both orders.
Compare ==
    /\ nPc = "start"
    /\ nPc' = "done"
    /\ \E similarity \in { name_similarity(format_name_proper_order(nName),
                                          format_name_proper_order(nTitle)) } :
           nOut' = [ display    |-> format_name_proper_order(nName),
                     key1       |-> normalize_name(nName),
                     key2       |-> normalize_name(nTitle),
                     similarity |-> similarity,
                     confidence |-> get_confidence_label(similarity),
                     decision   |->
                         DefaultDecision(
                             << [ Person(nName, None, None, << >>, None) EXCEPT
                                    !.potential_matches =
                                        Some(<< [ officer |-> Hit(nTitle, None, << >>),
                                                  officer_id |-> "" ] >>) ] >>,
                             [person_idx |-> 0, match_idx |-> 0]),
                     forward    |-> name_similarity(nName, nTitle),
                     backward   |-> name_similarity(nTitle, nName) ]
    /\ UNCHANGED <<nName, nTitle, apiVars, catVars, matchVars, aggVars, sessVars,
                   apptVars>>

(***************************************************************************)
(* Appointment fetch (main.py 203-224).  An appointment record is the      *)
(* place it has in the list the registry holds for the officer.            *)
(***************************************************************************)
MaxRecords == 101

\* What api_call returns for the request at start_index: the answer the
\* registry fails with at that offset, if it fails there, or else the next
\* records it holds, at most PageSize of them, and the total it reports.  A
\* registry that holds None never runs out of records.
AppointmentsPage(server, start_index) ==
    IF server.fault /= None /\ server.fault[1].start_index = start_index
    THEN server.fault[1].data
    ELSE LET left  == IF server.held = None THEN PageSize
                      ELSE server.held[1] - start_index
             count == IF left > PageSize THEN PageSize
                      ELSE IF left < 0 THEN 0 ELSE left
         IN  Some([ items |-> Some([i \in 1..count |-> start_index + i]),
                    total_results |-> server.total_results ])

\* Line 219 with < for <=.
LastPage_exclusive(data, start_index) ==
    \/ Len(data[1].items[1]) < PageSize
    \/ GetOr(data[1].total_results, 0) < start_index + PageSize

\* Line 219: the page is short or the reported total is covered.
LastPage(data, start_index) ==
    \/ Len(data[1].items[1]) < PageSize
    \/ GetOr(data[1].total_results, 0) <= start_index + PageSize

FetchIdle ==
    /\ fPc = "loop"
    /\ fServer = [held |-> Some(0), total_results |-> None, fault |-> None]
    /\ fStart = 0
    /\ fAppointments = << >>
    /\ fRequests = << >>

\* One iteration of the `while True` of get_all_appointments.
FetchPage ==
    /\ fPc = "loop"
    /\ fRequests' = Append(fRequests, fStart)
    /\ \E data \in {AppointmentsPage(fServer, fStart)} :
           /\ fAppointments' = IF NoItems(data) THEN fAppointments
                               ELSE fAppointments \o data[1].items[1]
           /\ fPc' = IF NoItems(data) THEN "done"
                     ELSE IF LastPage(data, fStart) THEN "done" ELSE "loop"
           /\ fStart' = IF NoItems(data) THEN fStart
                        ELSE IF LastPage(data, fStart) THEN fStart
                        ELSE fStart + PageSize
    /\ UNCHANGED <<fServer, apiVars, catVars, matchVars, aggVars, sessVars,
                   nameVars>>

\* Registries that hold up to MaxRecords records or never run out, report
\* the number they hold, another total or none, and may fail one request
\* with no answer or with a body without items.
FetchServers ==
    LET faults == {None}
                  \cup { Some([start_index |-> s, data |-> d]) :
                           s \in {0, 50, 100},
                           d \in {None, Some([items |-> None,
                                              total_results |-> Some(0)])} }
    IN  UNION { { [held |-> h, total_results |-> t, fault |-> f] :
                    t \in {None, Some(0), Some(50), Some(75), Some(150)} \cup {h},
                    f \in faults } :
                  h \in {None} \cup {Some(n) : n \in 0..MaxRecords} }

(***************************************************************************)
(* Specifications.                                                         *)
(***************************************************************************)
\* The Registry Client alone: calls of api_call against any server.
InitApi == ApiIdle /\ CatIdle /\ MatchIdle /\ AggIdle /\ SessIdle
           /\ NameIdle /\ FetchIdle

NextApi ==
    \/ \E endpoint \in Endpoints : ApiCall(endpoint)
    \/ \E r \in Responses : ApiRequest(r)

SpecApi == InitApi /\ [][NextApi]_vars

\* categorize_companies alone, on any merged appointment list.
InitCat ==
    /\ ApiIdle
    /\ MatchIdle
    /\ AggIdle
    /\ SessIdle
    /\ NameIdle
    /\ FetchIdle
    /\ appointments \in ApptLists
    /\ catIdx = 0
    /\ seen = {}
    /\ categories = EmptyCategories

NextCat == CategorizeNext

SpecCat == InitCat /\ [][NextCat]_vars

\* The Match Finder alone: one roster entry against any search server.
InitMatch ==
    /\ ApiIdle
    /\ CatIdle
    /\ AggIdle
    /\ SessIdle
    /\ NameIdle
    /\ FetchIdle
    /\ mPc = "start"
    /\ mPerson \in MatchPersons
    /\ mServer \in Servers
    /\ mRequests = << >>

NextMatch == MatchFind

SpecMatch == InitMatch /\ [][NextMatch]_vars

\* search_officers for one person against registries that answer a query
\* with nothing, with two pages or without end.
InitSearch ==
    /\ ApiIdle
    /\ CatIdle
    /\ AggIdle
    /\ SessIdle
    /\ NameIdle
    /\ FetchIdle
    /\ mPc = "start"
    /\ mPerson \in { Person(SmithJohn, Some(3), Some(1975), <<"Director">>, Some("a")),
                     Person(MrJohnSmith, None, None, <<"PSC">>, None) }
    /\ mServer \in [1..4 -> {1, 5, Len(QueryScripts) + 1}]
    /\ mRequests = << >>

SpecSearch == InitSearch /\ [][NextMatch]_vars

\* The roster fetch and merge alone, on any pair of responses.
InitAgg ==
    /\ ApiIdle
    /\ CatIdle
    /\ MatchIdle
    /\ SessIdle
    /\ NameIdle
    /\ FetchIdle
    /\ gPc = "start"
    /\ gOfficers \in RosterData(OfficerPool, MaxDirectors)
    /\ gPscs \in RosterData(PscPool, MaxPscs)
    /\ directors = << >>
    /\ pscs = << >>
    /\ people = << >>

NextAgg == Aggregate

SpecAgg == InitAgg /\ [][NextAgg]_vars

\* The session: the three steps under every interaction of the user.
InitSession == ApiIdle /\ CatIdle /\ MatchIdle /\ AggIdle /\ SessIdle
           /\ NameIdle /\ FetchIdle

NextSession ==
    \/ \E text \in Texts, company \in Companies,
          officers \in RosterData(SessionOfficers, MaxDirectors),
          pscData \in RosterData(SessionPscs, MaxPscs) :
              SearchCompany(text, company, officers, pscData)
    \/ \E server \in SessionServers : FindAllMatches(server)
    \/ ChangeRadio
    \/ RerunReview
    \/ Confirm
    \/ StartOver
    \/ SearchAnother

SpecSession == InitSession /\ [][NextSession]_vars

\* The name functions alone, on any pair of names.
InitName ==
    /\ ApiIdle
    /\ CatIdle
    /\ MatchIdle
    /\ AggIdle
    /\ SessIdle
    /\ FetchIdle
    /\ nPc = "start"
    /\ nName \in NamePool
    /\ nTitle \in NamePool
    /\ nOut = None

SpecName == InitName /\ [][Compare]_vars

\* get_all_appointments alone, against any registry; the loop goes on as
\* long as it has not returned.
InitFetch ==
    /\ ApiIdle
    /\ CatIdle
    /\ MatchIdle
    /\ AggIdle
    /\ SessIdle
    /\ NameIdle
    /\ fPc = "loop"
    /\ fServer \in FetchServers
    /\ fStart = 0
    /\ fAppointments = << >>
    /\ fRequests = << >>

SpecFetch == InitFetch /\ [][FetchPage]_vars /\ WF_vars(FetchPage)

(***************************************************************************)
(* Claims.                                                                 *)
(***************************************************************************)
CatDone == catIdx = Len(appointments)

\* The company numbers of the records the loop has taken so far that are
\* neither missing nor empty.
NumbersTaken ==
    { AppointedTo(appointments[i], "company_number")[1] :
        i \in { j \in 1..catIdx :
                  /\ AppointedTo(appointments[j], "company_number") /= None
                  /\ AppointedTo(appointments[j], "company_number")[1] /= "" } }

\* The company number a display entry shows between its brackets.
EntryNumber(e) == e[3]

\* The places (category, position) of the output where number n is listed.
PlacesOf(n) ==
    { <<c, k>> \in CategoryNames \X (1..MaxAppts + 1) :
        k <= Len(categories[c]) /\ EntryNumber(categories[c][k]) = n }

TotalEntries ==
    Len(categories["active"]) + Len(categories["dissolved"])
    + Len(categories["involuntary"]) + Len(categories["resigned"])

\* C1: every distinct non-empty company number of the input is listed in
\* exactly one of the four lists and exactly once, so the four lists hold as
\* many entries as the input has distinct company numbers (stated for every
\* prefix the loop has taken, hence for the whole list when it returns).
C1_EachCompanyOnce ==
    /\ \A n \in NumbersTaken : Cardinality(PlacesOf(n)) = 1
    /\ TotalEntries = Cardinality(NumbersTaken)

\* C1 witness: the call has returned on a list of two different records that
\* share a company number, and the output holds one entry.
C1_Witness ==
    /\ CatDone
    /\ Len(appointments) > Cardinality(NumbersTaken)
    /\ \E i, j \in 1..Len(appointments) :
          /\ i < j
          /\ TruthyStr(AppointedTo(appointments[i], "company_number"))
          /\ AppointedTo(appointments[i], "company_number")
               = AppointedTo(appointments[j], "company_number")
          /\ appointments[i] /= appointments[j]
    /\ TotalEntries = 1

\* Equality of two strings up to the case of their letters.
EqIgnoreCase(a, b) ==
    /\ Len(a) = Len(b)
    /\ \A i \in 1..Len(a) : UpperChar(a[i]) = UpperChar(b[i])

HasResignationDate(appt) ==
    appt.resigned_on /= None /\ appt.resigned_on[1] /= ""

\* The status string of a record, empty when the record has none.
StatusOf(appt) ==
    IF appt.appointed_to = None
         \/ appt.appointed_to[1].company_status = None
    THEN << >>
    ELSE appt.appointed_to[1].company_status[1]

\* The category the priority rule gives a record.
PriorityCategory(appt) ==
    IF HasResignationDate(appt) THEN "resigned"
    ELSE IF \E w \in involuntary_statuses : EqIgnoreCase(StatusOf(appt), w)
         THEN "involuntary"
         ELSE IF EqIgnoreCase(StatusOf(appt), dissolved) THEN "dissolved"
              ELSE "active"

\* The first record taken so far that carries company number n.
FirstRecordOf(n) ==
    appointments[
        CHOOSE i \in 1..catIdx :
            /\ AppointedTo(appointments[i], "company_number") = Some(n)
            /\ \A j \in 1..(i - 1) :
                   AppointedTo(appointments[j], "company_number") /= Some(n)]

\* C3: every listed company stands in the category the priority rule gives
\* the record it was listed for: resigned, else involuntary (status compared
\* case-insensitively), else dissolved, else active.
C3_PriorityOrder ==
    \A c \in CategoryNames :
        \A k \in 1..Len(categories[c]) :
            PriorityCategory(FirstRecordOf(EntryNumber(categories[c][k]))) = c

\* C3 witness: a resigned appointment to a company in liquidation is listed
\* as resigned, next to an unresigned one listed as involuntary.
C3_Witness ==
    /\ CatDone
    /\ Len(categories["resigned"]) = 1
    /\ Len(categories["involuntary"]) = 1
    /\ \E i \in 1..Len(appointments) :
          /\ HasResignationDate(appointments[i])
          /\ EqIgnoreCase(StatusOf(appointments[i]),
                          <<"l","i","q","u","i","d","a","t","i","o","n">>)
          /\ AppointedTo(appointments[i], "company_number")
               = Some(EntryNumber(categories["resigned"][1]))

\* C6: one call of api_call sends at most two HTTP requests.
C6_AtMostTwoRequests == Len(apiLog) <= 2

\* The value the claim gives a final response.
ValueOf(r) ==
    IF r.kind = "status" /\ r.code = 200 /\ r.body /= None
    THEN r.body
    ELSE None

Is429(r) == r.kind = "status" /\ r.code = 429

\* C7: api_call never raises; a response other than 429 ends the call with
\* no further request, and the call returns the parsed body of a 200 and
\* None for 404, 416, any other status and any exception.
C7_OutcomeMapping ==
    /\ ~apiRaised
    /\ \A i \in 1..(Len(apiLog) - 1) : Is429(apiLog[i])
    /\ (apiLog /= << >> /\ ~Is429(apiLog[Len(apiLog)])) => apiPc = "done"
    /\ apiPc = "done" => apiResult = ValueOf(apiLog[Len(apiLog)])

\* C7 witness: a call that met a timeout on its first request has returned
\* None.
C7_Witness ==
    /\ apiPc = "done"
    /\ Len(apiLog) = 1
    /\ apiLog[1].kind = "timeout"
    /\ apiResult = None

\* candidateMatches of the person of the Match Finder.
CandidateMatches == GetOr(mPerson.potential_matches, << >>)

\* C4: a person whose month or year of birth is unknown gets no candidate.
C4_UnknownDobNoCandidates ==
    (mPc = "done" /\ (mPerson.dob_month = None \/ mPerson.dob_year = None))
        => CandidateMatches = << >>

\* The items of the responses to the requests sent, in discovery order.
RECURSIVE HitsOf(_)
HitsOf(requests) ==
    IF requests = << >> THEN << >>
    ELSE LET r    == requests[Len(requests)]
             data == ResponseOf(ServerOf(mServer), r.query,
                                r.start_index \div PageSize)
         IN  HitsOf(SubSeq(requests, 1, Len(requests) - 1))
             \o (IF NoItems(data) THEN << >> ELSE data[1].items[1])

HasId(h) == HasOfficersSegment(h.self) /\ OfficerIdOf(h.self) /= ""

\* Hit number i is the first hit carrying its officer id, its month and year
\* of birth equal the person's, and its id is not the person's own.
IsCandidate(hits, i) ==
    /\ HasId(hits[i])
    /\ \A j \in 1..(i - 1) :
           ~(HasId(hits[j]) /\ OfficerIdOf(hits[j].self) = OfficerIdOf(hits[i].self))
    /\ DobGet(hits[i].date_of_birth, "month") = mPerson.dob_month
    /\ DobGet(hits[i].date_of_birth, "year") = mPerson.dob_year
    /\ Some(OfficerIdOf(hits[i].self)) /= mPerson.officer_id

\* The candidates among hits, in the order of the hits.
CandidatesOf(hits) ==
    LET kept == {i \in 1..Len(hits) : IsCandidate(hits, i)}
    IN  [k \in 1..Cardinality(kept) |->
            [officer    |-> hits[Nth(kept, k)],
             officer_id |-> OfficerIdOf(hits[Nth(kept, k)].self)]]

C2_VerifiedCategorized ==
    step = "show_results" =>
        \A p \in 1..Len(screen.results) :
            screen.results[p].verified_ids /= << >> =>
                /\ screen.results[p].fetched = screen.results[p].verified_ids
                /\ screen.results[p].categories /= None

\* C8: the session leaves step input only for review_matches, and only with
\* a company profile and a roster that is not empty stored; while the step
\* is input no roster and no decision is stored; once the roster is merged
\* and not empty, whatever the officer searches answer, the next step is
\* review_matches; and show_results is entered only from review_matches by
\* the confirm button.
C8_StepTransitions ==
    /\ [](step = "input" => people_data = << >> /\ match_decisions = << >>)
    /\ [](hPc = "match" => step = "input" /\ company_data /= None /\ hPeople /= << >>)
    /\ [][ /\ (step = "input" /\ step' /= "input") =>
                  /\ step' = "review_matches"
                  /\ company_data' /= None
                  /\ people_data' /= << >>
           /\ hPc = "match" => step' = "review_matches"
           /\ (step /= "show_results" /\ step' = "show_results") =>
                  step = "review_matches" /\ event' = "confirm" ]_vars

\* A company found whose roster is not empty reaches the review although the
\* registry answered none of the officer searches.
C8_Witness ==
    /\ step = "review_matches"
    /\ registry = [q \in 1..4 |-> 1]
    /\ Len(people_data) = 2
    /\ \A p \in 1..2 : people_data[p].potential_matches = Some(<< >>)

\* The identity key of a roster item: (normalizedName, dobMonth, dobYear).
IdentityKey(item) == <<normalize_name(item.name), item.dob_month, item.dob_year>>

\* The director list followed by the PSC list, and the places of the items
\* of one key in it.
SourceItems == directors \o pscs

ItemsOfKey(key) ==
    { k \in 1..Len(SourceItems) : IdentityKey(SourceItems[k]) = key }

\* C9: the aggregation yields exactly one person per identity key of the
\* director and PSC lists; the roles of the person are the roles of all
\* items of that key, and the officer id is the first non-empty officer id
\* of those items in directors-then-PSCs order (none when they have none).
C9_OnePersonPerKey ==
    gPc = "done" =>
        /\ \A i, j \in 1..Len(people) :
               IdentityKey(people[i]) = IdentityKey(people[j]) => i = j
        /\ { IdentityKey(people[i]) : i \in 1..Len(people) }
               = { IdentityKey(SourceItems[k]) : k \in 1..Len(SourceItems) }
        /\ \A i \in 1..Len(people) :
               LET same   == ItemsOfKey(IdentityKey(people[i]))
                   withId == { k \in same : TruthyStr(SourceItems[k].officer_id) }
               IN  /\ Range(people[i].roles)
                          = UNION { Range(SourceItems[k].roles) : k \in same }
                   /\ IF withId = {} THEN ~TruthyStr(people[i].officer_id)
                      ELSE people[i].officer_id
                               = SourceItems[Nth(withId, 1)].officer_id

\* Two directors and a PSC of one key are one person with both roles, whose
\* officer id is that of the second director, the first having none.
C9_Witness ==
    /\ gPc = "done"
    /\ Len(directors) = 2
    /\ Len(pscs) = 1
    /\ Len(people) = 1
    /\ ~TruthyStr(directors[1].officer_id)
    /\ people[1].officer_id = Some("a")
    /\ Range(people[1].roles) = {"Director", "PSC"}

\* The decision stored for candidate m of person p, if any.
StoredFor(p, m) ==
    { match_decisions[k].decision :
        k \in { k \in 1..Len(match_decisions) :
                  match_decisions[k].key = <<"person", p - 1, "_match", m - 1>> } }

\* The officer ids of the candidates of person p whose stored decision is
\* 'Yes', in the order of the candidates.
ChosenOf(p) ==
    LET candidates == GetOr(people_data[p].potential_matches, << >>)
        yes == { m \in 1..Len(candidates) : StoredFor(p, m) = {"Yes"} }
    IN  [ n \in 1..Cardinality(yes) |-> candidates[Nth(yes, n)].officer_id ]

\* C10: the officer ids the results step uses for a person are the original
\* verified ids of the person followed by the ids of those of the person's
\* own candidates whose stored decision is 'Yes'; the stored decision of a
\* rendered candidate is the one its radio shows; and a run on the review
\* page keeps the keys of the store, and the store when no radio changed.
C10_ConfirmedIdsExact ==
    /\ [](step = "show_results" =>
            /\ Len(screen.results) = Len(people_data)
            /\ \A p \in 1..Len(people_data) :
                   screen.results[p].verified_ids
                       = GetOr(people_data[p].verified_ids, << >>) \o ChosenOf(p))
    /\ [](step = "review_matches" =>
            \A k \in 1..Len(match_decisions) :
                /\ match_decisions[k].key \in DOMAIN radios
                /\ match_decisions[k].decision = radios[match_decisions[k].key])
    /\ [][ (step = "review_matches" /\ step' = "review_matches") =>
               /\ Len(match_decisions') = Len(match_decisions)
               /\ \A k \in 1..Len(match_decisions) :
                      /\ match_decisions'[k].key = match_decisions[k].key
                      /\ match_decisions'[k].person_idx = match_decisions[k].person_idx
                      /\ match_decisions'[k].officer_id = match_decisions[k].officer_id
               /\ radios' = radios => match_decisions' = match_decisions ]_vars

\* Two persons with candidates of the same ids: the first confirmed b and
\* turned f down, the second confirmed a and f and turned b down.
C10_Witness ==
    /\ step = "show_results"
    /\ Len(people_data) = 2
    /\ screen.results[1].verified_ids = <<"a", "b">>
    /\ screen.results[2].verified_ids = <<"a", "f">>
    /\ Len(match_decisions) = 5

\* C11: after the match finding, the verified ids of a person whose roster
\* record carried an officer id are there and start with that id, whatever
\* the name of the person is.
C11_OriginalIdVerified ==
    (mPc = "done" /\ TruthyStr(mPerson.officer_id)) =>
        /\ mPerson.verified_ids /= None
        /\ mPerson.verified_ids[1] /= << >>
        /\ Some(Head(mPerson.verified_ids[1])) = mPerson.officer_id

\* C20: the review page always offers Start Over and the results page always
\* offers Search Another Company.
C20_ResetOffered ==
    /\ step = "review_matches" => "start_over" \in screen.buttons
    /\ step = "show_results" => "search_another" \in screen.buttons

\* The place in the list of the first record taken so far with number n.
FirstIndexOf(n) ==
    CHOOSE i \in 1..catIdx :
        /\ AppointedTo(appointments[i], "company_number") = Some(n)
        /\ \A j \in 1..(i - 1) :
               AppointedTo(appointments[j], "company_number") /= Some(n)

\* C17: the entry of a company shows the name and stands in the category of
\* the first record of the list that carries its number; within a category
\* the entries stand in the order in which their numbers were first seen;
\* and a record whose number was seen before changes no output list.
C17_FirstRecordWins ==
    /\ [](\A c \in CategoryNames : \A k \in 1..Len(categories[c]) :
            LET first == appointments[FirstIndexOf(EntryNumber(categories[c][k]))]
            IN  /\ categories[c][k][1]
                     = GetOr(first.appointed_to[1].company_name, "Unknown")
                /\ PriorityCategory(first) = c)
    /\ [](\A c \in CategoryNames : \A k1, k2 \in 1..Len(categories[c]) :
            k1 < k2 => FirstIndexOf(EntryNumber(categories[c][k1]))
                           < FirstIndexOf(EntryNumber(categories[c][k2])))
    /\ [][ (/\ catIdx' = catIdx + 1
            /\ AppointedTo(appointments[catIdx + 1], "company_number") /= None
            /\ AppointedTo(appointments[catIdx + 1], "company_number")[1]
                   \in NumbersTaken)
               => categories' = categories ]_vars

\* Two records of one number that differ in name and in category: the one
\* entry of the output is that of the first.
C17_Witness ==
    /\ CatDone
    /\ Len(appointments) = 2
    /\ AppointedTo(appointments[1], "company_number") = Some("1")
    /\ AppointedTo(appointments[2], "company_number") = Some("1")
    /\ AppointedTo(appointments[1], "company_name") = None
    /\ AppointedTo(appointments[2], "company_name") /= None
    /\ PriorityCategory(appointments[1]) = "dissolved"
    /\ PriorityCategory(appointments[2]) = "resigned"
    /\ categories["dissolved"] = << <<"Unknown", " (", "1", ")">> >>
    /\ TotalEntries = 1

\* The places in mRequests of the requests of query number q.
RequestsOf(q) == { i \in 1..Len(mRequests) : mRequests[i].query = q }

\* The response to a request of a query ends the query: it is absent or has
\* no items, has fewer than 50 items, or reports a total the pages so far
\* cover.
EndsQuery(data, page) ==
    \/ data = None
    \/ data[1].items = None
    \/ Len(data[1].items[1]) < 50
    \/ GetOr(data[1].total_results, 0) <= (page + 1) * 50

\* C19: search_officers sends the requests of the four queries (full display
\* name, 'first last', 'last first', 'last, first') one query after the
\* other, at least one and at most 10 per query and at most 40 in all, at
\* the offsets 0, 50, 100, ...; the request after one of a query is sent
\* exactly when the response to that one does not end the query and fewer
\* than 10 were sent.
C19_BoundedPaging ==
    (mPc = "done" /\ ~NoFirstLast(mPerson.name)) =>
        LET first == extract_first_last(mPerson.name)[1]
            last  == extract_first_last(mPerson.name)[2]
            text  == << format_name_proper_order(mPerson.name),
                        first \o <<" ">> \o last,
                        last \o <<" ">> \o first,
                        last \o <<",", " ">> \o first >>
        IN  /\ Len(mRequests) <= 40
            /\ \A i \in 1..Len(mRequests) :
                   /\ mRequests[i].query \in 1..4
                   /\ mRequests[i].q = text[mRequests[i].query]
            /\ \A i, j \in 1..Len(mRequests) :
                   i < j => mRequests[i].query <= mRequests[j].query
            /\ \A q \in 1..4 :
                   /\ Cardinality(RequestsOf(q)) \in 1..10
                   /\ \A n \in 1..Cardinality(RequestsOf(q)) :
                          /\ mRequests[Nth(RequestsOf(q), n)].start_index
                                 = (n - 1) * 50
                          /\ (n < Cardinality(RequestsOf(q)))
                                 <=> (/\ n < 10
                                      /\ ~EndsQuery(ResponseOf(ServerOf(mServer),
                                                               q, n - 1), n - 1))

\* The first query got no answer, the second was answered without end and
\* was cut after 10 pages, the third ended on its second page, and the
\* fourth was still sent.
C19_Witness ==
    /\ mPc = "done"
    /\ mServer = <<1, Len(QueryScripts) + 1, 5, 1>>
    /\ Cardinality(RequestsOf(1)) = 1
    /\ Cardinality(RequestsOf(2)) = 10
    /\ Cardinality(RequestsOf(3)) = 2
    /\ Cardinality(RequestsOf(4)) = 1
    /\ mRequests[11].start_index = 450

(***************************************************************************)
(* The names.                                                              *)
(***************************************************************************)
\* The tokens of a name, in upper case: the longest runs of characters that
\* are neither a space nor a comma, from left to right.
TokensOf(name) ==
    LET Sep(i)   == name[i] = " " \/ name[i] = ","
        starts   == { i \in 1..Len(name) : ~Sep(i) /\ (i = 1 \/ Sep(i - 1)) }
        EndOf(i) == CHOOSE j \in i..Len(name) :
                        /\ \A k \in i..j : ~Sep(k)
                        /\ j = Len(name) \/ Sep(j + 1)
    IN  [ n \in 1..Cardinality(starts) |->
            Upper(SubSeq(name, Nth(starts, n), EndOf(Nth(starts, n)))) ]

Honorifics ==
    { <<"M","R">>, <<"M","R","S">>, <<"M","S">>, <<"M","I","S","S">>,
      <<"D","R">>, <<"S","I","R">>, <<"L","A","D","Y">>, <<"L","O","R","D">> }

\* C12: every token of the name that is not an honorific is a token of what
\* format_name_proper_order returns for the name, in upper case.
C12_WholeTokenHonorifics ==
    nPc = "done" =>
        \A t \in Range(TokensOf(nName)) :
            t \notin Honorifics => t \in Range(TokensOf(nOut.display))

\* The places of the commas of a name.
CommasOf(name) == { i \in 1..Len(name) : name[i] = "," }

\* C13: for a name with exactly one comma format_name_proper_order returns
\* the part after the comma, one space, and the part before the comma, as
\* the name has them, so "John SMITH" for "SMITH, John".
C13_ForenamesThenSurname ==
    (nPc = "done" /\ Cardinality(CommasOf(nName)) = 1) =>
        LET comma == CHOOSE i \in CommasOf(nName) : TRUE
        IN  nOut.display
                = Strip(SubSeq(nName, comma + 1, Len(nName)))
                  \o <<" ">>
                  \o Strip(SubSeq(nName, 1, comma - 1))

\* The number of times token t that is no honorific stands in a name.
CountOf(name, t) ==
    Cardinality({ n \in 1..Len(TokensOf(name)) :
                    TokensOf(name)[n] = t /\ t \notin Honorifics })

\* C14: two names get the same key from normalize_name exactly when they
\* have the same upper-cased tokens that are no honorifics, each as many
\* times, in whatever order and on whichever side of a comma.
C14_KeyIsTokenMultiset ==
    nPc = "done" =>
        (nOut.key1 = nOut.key2
            <=> \A t \in Range(TokensOf(nName)) \cup Range(TokensOf(nTitle)) :
                    CountOf(nName, t) = CountOf(nTitle, t))

\* "SMITH, John" and "John SMITH" have one key.
C14_Witness ==
    /\ nPc = "done"
    /\ nName = SmithJohn
    /\ nTitle = JohnSmith
    /\ nOut.key1 = nOut.key2
    /\ nOut.key1 = <<"J","O","H","N"," ","S","M","I","T","H">>

\* The similarity 2*M/T of the comparison is at least p/q.
RatioAtLeast(p, q) ==
    \/ nOut.similarity.length = 0
    \/ 2 * nOut.similarity.matches * q >= p * nOut.similarity.length

\* C15: the label is VERY HIGH from 0.95, HIGH from 0.85, MEDIUM from 0.70,
\* LOW from 0.50, each bound included, and VERY LOW below; and the radio
\* starts with Yes exactly when the label is HIGH or VERY HIGH.
C15_InclusiveTiers ==
    nPc = "done" =>
        /\ nOut.confidence =
               IF RatioAtLeast(19, 20) THEN "VERY HIGH"
               ELSE IF RatioAtLeast(17, 20) THEN "HIGH"
               ELSE IF RatioAtLeast(7, 10) THEN "MEDIUM"
               ELSE IF RatioAtLeast(1, 2) THEN "LOW"
               ELSE "VERY LOW"
        /\ nOut.decision \in {"Yes", "No"}
        /\ nOut.decision = "Yes" <=> nOut.confidence \in {"HIGH", "VERY HIGH"}

\* A similarity of exactly 0.85, 17 of 20 characters on either side, is HIGH
\* and the radio starts with Yes.
C15_Witness ==
    /\ nPc = "done"
    /\ nOut.similarity = [matches |-> 17, length |-> 40]
    /\ nOut.confidence = "HIGH"
    /\ nOut.decision = "Yes"

\* C16: name_similarity of a name that is not empty with itself is 1.0, and
\* name_similarity of two names is the same in both orders.
C16_ReflexiveSymmetric ==
    nPc = "done" =>
        /\ (nName = nTitle /\ nName /= << >>) =>
               2 * nOut.forward.matches = nOut.forward.length
        /\ nOut.forward = nOut.backward

(***************************************************************************)
(* The appointment fetch.                                                  *)
(***************************************************************************)
\* The answer to the request at an offset is one to stop at: there is none,
\* it has fewer than 50 items (none, when it has no list of items), or the
\* total it reports (0, when it reports none) is at most the offset + 50.
StopsAt(offset) ==
    LET data  == AppointmentsPage(fServer, offset)
        count == IF data = None \/ data[1].items = None THEN 0
                 ELSE Len(data[1].items[1])
        total == IF data = None \/ data[1].total_results = None THEN 0
                 ELSE data[1].total_results[1]
    IN  data = None \/ count < 50 \/ total <= offset + 50

\* The registry holds a number of records, reports that number as the total
\* and answers every request.
Honest ==
    /\ fServer.held /= None
    /\ fServer.total_results = fServer.held
    /\ fServer.fault = None

\* C18: the requests of get_all_appointments are at the offsets 0, 50, 100,
\* ... and the last of them is the first whose answer is absent, has fewer
\* than 50 items or reports a total of at most the offset + 50; from a
\* registry that holds N records and reports N as the total it returns the
\* N records in the registry's order after max(1, ceil(N/50)) requests; and
\* it returns in the end.
C18_PagedFetch ==
    /\ [](\A i \in 1..Len(fRequests) :
              /\ fRequests[i] = 50 * (i - 1)
              /\ i < Len(fRequests) => ~StopsAt(fRequests[i])
              /\ i = Len(fRequests) =>
                     (StopsAt(fRequests[i]) <=> fPc = "done"))
    /\ []((fPc = "done" /\ Honest) =>
              LET N == fServer.held[1]
              IN  /\ fAppointments = [i \in 1..N |-> i]
                  /\ Len(fRequests)
                       = IF N <= 50 THEN 1 ELSE (N + 49) \div 50)
    /\ [](fPc = "done" => fRequests /= << >>)
    /\ <>(fPc = "done")

\* 101 records of an honest registry came back in order after requests at
\* 0, 50 and 100.
C18_Witness ==
    /\ fPc = "done"
    /\ Honest
    /\ fServer.held = Some(101)
    /\ fRequests = <<0, 50, 100>>
    /\ fAppointments = [i \in 1..101 |-> i]

====
